---------------------------- MODULE Spec2Model ----------------------------
(***************************************************************************)
(* A model of todo-cli: the todos table (src/src/db.rs), the commands      *)
(* built on it (src/src/commands.rs) and one process invocation            *)
(* (src/src/lib.rs, src/src/main.rs).                                      *)
(*                                                                         *)
(* A row id is a 64-bit integer.  It is written [hi, lo], standing for     *)
(* hi * 2^32 + lo with lo < 2^32, so that `id as u32` (db.rs:121) is       *)
(* exact: it keeps lo and clears hi.                                       *)
(***************************************************************************)
EXTENDS Integers, Sequences, FiniteSets

VARIABLES
    table,      \* the rows of the todos table: a set of [id, title, done]
    before,     \* the table as it was when the last invocation started
    last,       \* what the last invocation was given and what it produced
    used,       \* every id a row had when an invocation ended (history)
    pending,    \* per process: the write it computed from its read, not yet applied
    fresh,      \* per process: ids of the rows inserted since its read, still stored
    lastWrite   \* what the last delayed write touched

vars == <<table, before, last, used, pending, fresh, lastWrite>>

---------------------------------------------------------------------------
(* Bounds *)

\* ids handed out in a run stay at or below this (lo part)
MaxId == 3
\* titles given to one add
MaxTitles == 2
\* display indexes given to done, undone and remove range over 0..MaxIndex
MaxIndex == 3
\* ids of the stores remove_todos is applied to: hi in 0..MaxHi, lo in 0..MaxLo
MaxHi == 1
MaxLo == 1
\* largest id (lo part) and largest display index of the interleaved runs
MaxConcId == 2

Titles == {"a", "b"}

Procs == {1, 2}

---------------------------------------------------------------------------
(* Ids and rows *)

Id(h, l) == [hi |-> h, lo |-> l]

IdLess(a, b) == a.hi < b.hi \/ (a.hi = b.hi /\ a.lo < b.lo)

\* `id as u32`: the low 32 bits
AsU32(id) == [hi |-> 0, lo |-> id.lo]

Ids(rows) == {r.id : r \in rows}

MaxRowid(rows) == CHOOSE i \in Ids(rows) : \A j \in Ids(rows) : ~IdLess(i, j)

NewRowid_LowestFree(rows) ==
    CHOOSE i \in {Id(0, l) : l \in 1..(Cardinality(rows) + 1)} :
        /\ i \notin Ids(rows)
        /\ \A l \in 1..(i.lo - 1) : Id(0, l) \in Ids(rows)

\* The id an INSERT that names no id gives the new row of an INTEGER PRIMARY
\* KEY table declared without AUTOINCREMENT: 1 in an empty table, else one
\* more than the largest id stored.  (lo stays far below 2^32 here, so the
\* increment never carries into hi.)
NewRowid(rows) ==
    IF rows = {} THEN Id(0, 1)
    ELSE [hi |-> MaxRowid(rows).hi, lo |-> MaxRowid(rows).lo + 1]

\* Todo::new
Todo_new(title) == [id |-> Id(0, 0), title |-> title, done |-> FALSE]

RECURSIVE SortById(_)
SortById(rows) ==
    IF rows = {} THEN <<>>
    ELSE LET m == CHOOSE r \in rows : \A s \in rows : ~IdLess(s.id, r.id)
         IN  <<m>> \o SortById(rows \ {m})

\* what a fault injected into one invocation is: the step that fails, and for
\* "execute" the number of statements of the batch that ran before it
NoFail == [at |-> "none", k |-> 0]

Ok == "Ok"

---------------------------------------------------------------------------
(* Storage: src/src/db.rs *)

\* SELECT id, title, done FROM todos, with no ORDER BY: the table has no
\* index, so the rows come from a scan in rowid order.  Every row of the
\* model decodes, so filter_map(Result::ok) drops none.
get_todos(rows, fail) ==
    IF fail.at = "get_todos"
    THEN [todos |-> <<>>, res |-> "GetTodosError"]
    ELSE [todos |-> SortById(rows), res |-> Ok]

\* INSERT INTO todos (title, done) VALUES (?1, ?2)
Insert(rows, todo) ==
    rows \cup {[id |-> NewRowid(rows), title |-> todo.title, done |-> todo.done]}

Update_NoWhere(rows, todo) ==
    {[r EXCEPT !.title = todo.title, !.done = todo.done] : r \in rows}

\* UPDATE todos SET title = ?1, done = ?2 WHERE id = ?3
Update(rows, todo) ==
    {IF r.id = todo.id
     THEN [r EXCEPT !.title = todo.title, !.done = todo.done]
     ELSE r : r \in rows}

RECURSIVE InsertAll(_, _)
InsertAll(rows, todos) ==
    IF todos = <<>> THEN rows
    ELSE InsertAll(Insert(rows, Head(todos)), Tail(todos))

RECURSIVE UpdateAll(_, _)
UpdateAll(rows, todos) ==
    IF todos = <<>> THEN rows
    ELSE UpdateAll(Update(rows, Head(todos)), Tail(todos))

\* whether a statement of the batch fails: the first fail.k run, the next fails
Interrupted(todos, fail) == fail.at = "execute" /\ fail.k < Len(todos)

\* the statements of a batch that run: all of them, or those before the one
\* that fails
Executed(todos, fail) ==
    IF Interrupted(todos, fail) THEN SubSeq(todos, 1, fail.k) ELSE todos

Dropped_Commits(rows, tx) == tx

\* a Transaction dropped before commit() returned Ok: rolled back
Dropped(rows, tx) == rows

\* the `?` after each execute, then commit(): tx is the table as the
\* statements that ran left it inside the transaction
Committed(rows, todos, fail, tx, errExecute, errCommit) ==
    IF Interrupted(todos, fail)
    THEN [table |-> Dropped(rows, tx), res |-> errExecute]
    ELSE IF fail.at = "commit"
    THEN [table |-> Dropped(rows, tx), res |-> errCommit]
    ELSE [table |-> tx, res |-> Ok]

add_todos(rows, todos, fail) ==
    IF fail.at = "transaction"
    THEN [table |-> rows, res |-> "AddTodosError::CreateTransaction"]
    ELSE IF fail.at = "prepare"
    THEN [table |-> Dropped(rows, rows), res |-> "AddTodosError::PrepareInsert"]
    ELSE Committed(rows, todos, fail, InsertAll(rows, Executed(todos, fail)),
                   "AddTodosError::InsertTodo", "AddTodosError::CommitTransaction")

update_todos(rows, todos, fail) ==
    IF fail.at = "transaction"
    THEN [table |-> rows, res |-> "UpdateTodosError::CreateTransaction"]
    ELSE IF fail.at = "prepare"
    THEN [table |-> Dropped(rows, rows), res |-> "UpdateTodosError::Statement"]
    ELSE Committed(rows, todos, fail, UpdateAll(rows, Executed(todos, fail)),
                   "UpdateTodosError::UpdateTodo",
                   "UpdateTodosError::CommitTransaction")

\* DELETE FROM todos WHERE id in rarray(?1), ?1 the ids each cast `as u32`
remove_todos(rows, ids, fail) ==
    IF fail.at = "delete"
    THEN [table |-> rows, res |-> "RemoveTodoError"]
    ELSE [table |-> {r \in rows : r.id \notin {AsU32(i) : i \in ids}}, res |-> Ok]

get_connection(fail) ==
    IF fail.at = "open" THEN "GetConnectionError" ELSE Ok

create_table(fail) ==
    IF fail.at = "create_table" THEN "CreateTableError" ELSE Ok

\* the steps it ran, and the result
get_connection_with_table(fail) ==
    IF get_connection(fail) # Ok
    THEN [steps |-> <<"connection">>, res |-> get_connection(fail)]
    ELSE [steps |-> <<"connection", "schema">>, res |-> create_table(fail)]

---------------------------------------------------------------------------
(* Commands: src/src/commands.rs *)

\* into_iter().enumerate(): each todo with its 0-based position
Enumerate(todos) == [i \in 1..Len(todos) |-> [i |-> i - 1, todo |-> todos[i]]]

\* .filter(|(i, _)| indexes.contains(&i))
Selected(todos, indexes) ==
    LET Keep(p) == p.i \in indexes
    IN  SelectSeq(Enumerate(todos), Keep)

\* .map(|(_, todo)| Todo { done, ..todo })
WithDone(kept, done) ==
    [n \in 1..Len(kept) |-> [kept[n].todo EXCEPT !.done = done]]

\* .map(|(_, todo)| todo.id)
IdsOf(kept) == {kept[n].todo.id : n \in 1..Len(kept)}

add_command(rows, titles, fail) ==
    add_todos(rows, [i \in 1..Len(titles) |-> Todo_new(titles[i])], fail)

\* the todos set_done_command hands to update_todos
SetDoneTodos(todos, ids, done) == WithDone(Selected(todos, ids), done)

\* get_todos(..)? and then the update
SetDoneRead(rows, ids, done, fail, got) ==
    IF got.res # Ok
    THEN [table |-> rows, res |-> got.res]
    ELSE update_todos(rows, SetDoneTodos(got.todos, ids, done), fail)

set_done_command_OneBased(rows, ids, done, fail) ==
    SetDoneRead(rows, {i - 1 : i \in ids}, done, fail, get_todos(rows, fail))

set_done_command(rows, ids, done, fail) ==
    SetDoneRead(rows, ids, done, fail, get_todos(rows, fail))

\* the ids remove_command hands to remove_todos
RemoveIds(todos, indexes) == IdsOf(Selected(todos, indexes))

\* get_todos(..)? and then the delete
RemoveRead(rows, indexes, fail, got) ==
    IF got.res # Ok
    THEN [table |-> rows, res |-> got.res]
    ELSE remove_todos(rows, RemoveIds(got.todos, indexes), fail)

remove_command_ById(rows, indexes, fail) ==
    IF fail.at = "get_todos"
    THEN [table |-> rows, res |-> "GetTodosError"]
    ELSE remove_todos(rows, {r.id : r \in {t \in rows : t.id.lo \in indexes}}, fail)

remove_command(rows, indexes, fail) ==
    RemoveRead(rows, indexes, fail, get_todos(rows, fail))

\* .filter(|todo| todo.done)
DoneOnly(todos) ==
    LET IsDone(t) == t.done
    IN  SelectSeq(todos, IsDone)

\* the ids clear_command hands to remove_todos
ClearIds(todos) == {DoneOnly(todos)[n].id : n \in 1..Len(DoneOnly(todos))}

\* get_todos(..)? and then the delete
ClearRead(rows, fail, got) ==
    IF got.res # Ok
    THEN [table |-> rows, res |-> got.res]
    ELSE remove_todos(rows, ClearIds(got.todos), fail)

clear_command_FirstDone(rows, fail) ==
    IF fail.at = "get_todos"
    THEN [table |-> rows, res |-> "GetTodosError"]
    ELSE remove_todos(rows,
             IF DoneOnly(SortById(rows)) = <<>> THEN {}
             ELSE {Head(DoneOnly(SortById(rows))).id}, fail)

clear_command(rows, fail) == ClearRead(rows, fail, get_todos(rows, fail))

\* printed text is a sequence of pieces; a plain title is one piece
Plain(title) == <<title>>

\* terminal::strikethrough: the title, decorated so that it shows struck out
strikethrough(title) == <<"<strike>", title, "</strike>">>

\* println!("{}: {}", i, title)
Line(i, text) == [index |-> i, text |-> text]

\* the loop over todos.iter().enumerate()
Lines(todos) ==
    [n \in 1..Len(todos) |->
        IF todos[n].done
        THEN Line(n - 1, strikethrough(todos[n].title))
        ELSE Line(n - 1, Plain(todos[n].title))]

\* get_todos(..)? and then the loop
PrintRead(got) ==
    IF got.res # Ok
    THEN [stdout |-> <<>>, res |-> got.res]
    ELSE [stdout |-> Lines(got.todos), res |-> Ok]

\* print_command reads with its own get_todos; fault "print" is that read failing
print_command(rows, fail) ==
    PrintRead(get_todos(rows, IF fail.at = "print"
                              THEN [at |-> "get_todos", k |-> 0] ELSE NoFail))

---------------------------------------------------------------------------
(* One invocation: src/src/lib.rs, src/src/main.rs *)

Mutating == {"add", "done", "undone", "remove", "clear"}

\* the match arm's command call
Dispatch(rows, cmd, fail) ==
    CASE cmd.op = "add"    -> add_command(rows, cmd.titles, fail)
      [] cmd.op = "done"   -> set_done_command(rows, cmd.ids, TRUE, fail)
      [] cmd.op = "undone" -> set_done_command(rows, cmd.ids, FALSE, fail)
      [] cmd.op = "remove" -> remove_command(rows, cmd.ids, fail)
      [] cmd.op = "clear"  -> clear_command(rows, fail)

\* print_command(&connection)?; Ok(())
Printed(rows, steps, p) ==
    [table |-> rows, steps |-> Append(steps, "print"),
     stdout |-> p.stdout, res |-> p.res]

Arm_IgnoresError(steps, fail, m) ==
    Printed(m.table, Append(steps, "mutation"), print_command(m.table, fail))

\* the match arm of a mutating command: command(..)?; print_command(..)?
Arm(steps, fail, m) ==
    IF m.res # Ok
    THEN [table |-> m.table, steps |-> Append(steps, "mutation"),
          stdout |-> <<>>, res |-> m.res]
    ELSE Printed(m.table, Append(steps, "mutation"), print_command(m.table, fail))

\* get_connection_with_table()? and then the match
Connected(rows, cmd, fail, conn) ==
    IF conn.res # Ok
    THEN [table |-> rows, steps |-> conn.steps, stdout |-> <<>>, res |-> conn.res]
    ELSE IF cmd.op \in Mutating
    THEN Arm(conn.steps, fail, Dispatch(rows, cmd, fail))
    ELSE Printed(rows, conn.steps, print_command(rows, fail))

run_command(rows, cmd, fail) ==
    Connected(rows, cmd, fail, get_connection_with_table(fail))

\* unwrap_or_else(|e| { eprintln!("Error: {}", e); std::process::exit(1) })
Exited(r) ==
    [table  |-> r.table,
     steps  |-> r.steps,
     stdout |-> r.stdout,
     stderr |-> IF r.res = Ok THEN <<>> ELSE <<<<"Error: ", r.res>>>>,
     exit   |-> IF r.res = Ok THEN 0 ELSE 1]

main(rows, cmd, fail) == Exited(run_command(rows, cmd, fail))

---------------------------------------------------------------------------
(* The inputs of an invocation *)

Seqs(S, n) == UNION {[1..m -> S] : m \in 0..n}

IndexSets == SUBSET (0..MaxIndex)

Cmd(op, titles, ids) == [op |-> op, titles |-> titles, ids |-> ids]

F(at) == [at |-> at, k |-> 0]

\* the faults that can strike: every invocation opens the store, ensures the
\* schema and prints; the rest depends on the storage calls the command makes
Faults(rows, cmd) ==
    {NoFail, F("open"), F("create_table"), F("print")}
    \cup (IF cmd.op \in {"done", "undone", "remove", "clear"}
          THEN {F("get_todos")} ELSE {})
    \cup (IF cmd.op \in {"remove", "clear"} THEN {F("delete")} ELSE {})
    \cup (IF cmd.op \in {"add", "done", "undone"}
          THEN {F("transaction"), F("prepare"), F("commit")}
               \cup {[at |-> "execute", k |-> k] :
                        k \in 0..((IF cmd.op = "add"
                                   THEN Len(cmd.titles)
                                   ELSE Cardinality({i \in cmd.ids :
                                            i < Cardinality(rows)})) - 1)}
          ELSE {})

Idle == [op |-> "idle"]

NoWrite == [proc |-> 0, op |-> "none", touched |-> {}, fresh |-> {}]

Start == [cmd |-> Cmd("start", <<>>, {}), fail |-> NoFail, steps |-> <<>>,
          stdout |-> <<>>, stderr |-> <<>>, exit |-> 0]

---------------------------------------------------------------------------
(* Spec: invocations one after another, on a store that starts empty *)

Init ==
    /\ table = {}
    /\ before = {}
    /\ last = Start
    /\ used = {}
    /\ pending = [p \in Procs |-> Idle]
    /\ fresh = [p \in Procs |-> {}]
    /\ lastWrite = NoWrite

\* no process is running: the next command can be typed
AtPrompt == last.cmd.op = "start"

\* the store and the record an invocation leaves
Left(cmd, fail, m) ==
    /\ table' = m.table
    /\ before' = table
    /\ last' = [cmd |-> cmd, fail |-> fail, steps |-> m.steps,
                stdout |-> m.stdout, stderr |-> m.stderr, exit |-> m.exit]

Invoke(cmd, fail) == Left(cmd, fail, main(table, cmd, fail))

\* the ids stay within the model's bound
Fits(rows, n, max) == n = 0 \/ NewRowid(rows).lo + n - 1 <= max

Add ==
    /\ AtPrompt
    /\ \E titles \in Seqs(Titles, MaxTitles) :
            /\ Fits(table, Len(titles), MaxId)
            /\ \E fail \in Faults(table, Cmd("add", titles, {})) :
                   Invoke(Cmd("add", titles, {}), fail)
            /\ UNCHANGED <<used, pending, fresh, lastWrite>>

Done ==
    /\ AtPrompt
    /\ \E ids \in IndexSets :
            /\ \E fail \in Faults(table, Cmd("done", <<>>, ids)) :
                   Invoke(Cmd("done", <<>>, ids), fail)
            /\ UNCHANGED <<used, pending, fresh, lastWrite>>

Undone ==
    /\ AtPrompt
    /\ \E ids \in IndexSets :
            /\ \E fail \in Faults(table, Cmd("undone", <<>>, ids)) :
                   Invoke(Cmd("undone", <<>>, ids), fail)
            /\ UNCHANGED <<used, pending, fresh, lastWrite>>

Remove ==
    /\ AtPrompt
    /\ \E ids \in IndexSets :
            /\ \E fail \in Faults(table, Cmd("remove", <<>>, ids)) :
                   Invoke(Cmd("remove", <<>>, ids), fail)
            /\ UNCHANGED <<used, pending, fresh, lastWrite>>

Clear ==
    /\ AtPrompt
    /\ \E fail \in Faults(table, Cmd("clear", <<>>, {})) :
           Invoke(Cmd("clear", <<>>, {}), fail)
    /\ UNCHANGED <<used, pending, fresh, lastWrite>>

PrintList ==
    /\ AtPrompt
    /\ \E fail \in Faults(table, Cmd("print", <<>>, {})) :
           Invoke(Cmd("print", <<>>, {}), fail)
    /\ UNCHANGED <<used, pending, fresh, lastWrite>>

\* the process is gone, and with it everything but the store
Exit ==
    /\ ~AtPrompt
    /\ last' = Start
    /\ before' = table
    /\ UNCHANGED <<table, used, pending, fresh, lastWrite>>

Next == Add \/ Done \/ Undone \/ Remove \/ Clear \/ PrintList \/ Exit

Spec == Init /\ [][Next]_vars

---------------------------------------------------------------------------
(* SpecIds: the same invocations, with the ids handed out so far kept *)

\* as Exit, and the ids the store holds are added to the history
ExitTracked ==
    /\ ~AtPrompt
    /\ last' = Start
    /\ before' = table
    /\ used' = used \cup Ids(table)
    /\ UNCHANGED <<table, pending, fresh, lastWrite>>

NextIds == Add \/ Remove \/ Done \/ Clear \/ ExitTracked

SpecIds == Init /\ [][NextIds]_vars

---------------------------------------------------------------------------
(* SpecRemove: remove_todos applied to stores of any ids *)

SampleIds == {Id(h, l) : h \in 0..MaxHi, l \in 0..MaxLo}

StoreOf(ids) == {[id |-> i, title |-> "a", done |-> FALSE] : i \in ids}

InitRemove ==
    /\ table \in {StoreOf(ids) : ids \in SUBSET SampleIds}
    /\ before = table
    /\ last = Start
    /\ used = {}
    /\ pending = [p \in Procs |-> Idle]
    /\ fresh = [p \in Procs |-> {}]
    /\ lastWrite = NoWrite

RemoveTodos ==
    /\ AtPrompt
    /\ \E ids \in SUBSET SampleIds :
           /\ table' = remove_todos(table, ids, NoFail).table
           /\ before' = table
           /\ last' = [Start EXCEPT !.cmd = Cmd("remove_todos", <<>>, ids)]
    /\ UNCHANGED <<used, pending, fresh, lastWrite>>

NextRemove == RemoveTodos \/ Exit

SpecRemove == InitRemove /\ [][NextRemove]_vars

---------------------------------------------------------------------------
(* SpecConc: invocations of several processes on one store.  A command that *)
(* reads and then writes does so in two steps, and other processes' steps   *)
(* may fall between them.                                                   *)

Reading(p) == pending[p] # Idle

\* an add is one transaction
ConcAdd(p) ==
    /\ ~Reading(p)
    /\ \E titles \in Seqs(Titles, MaxTitles) :
           /\ Fits(table, Len(titles), MaxConcId)
           /\ table' = add_command(table, titles, NoFail).table
    /\ fresh' = [q \in Procs |->
                    IF Reading(q) THEN fresh[q] \cup (Ids(table') \ Ids(table))
                    ELSE fresh[q]]
    /\ UNCHANGED <<before, last, used, pending, lastWrite>>

\* the display indexes given in the interleaved runs
ConcIndexSets == SUBSET (0..MaxConcId)

\* get_todos, and what the command computes from it
ConcRead(p) ==
    /\ ~Reading(p)
    /\ \/ \E ids \in ConcIndexSets :
             pending' = [pending EXCEPT ![p] =
                 [op |-> "remove",
                  ids |-> RemoveIds(get_todos(table, NoFail).todos, ids)]]
       \/ \E ids \in ConcIndexSets, done \in BOOLEAN :
             pending' = [pending EXCEPT ![p] =
                 [op |-> IF done THEN "done" ELSE "undone",
                  todos |-> SetDoneTodos(get_todos(table, NoFail).todos, ids, done)]]
       \/ pending' = [pending EXCEPT ![p] =
                 [op |-> "clear",
                  ids |-> ClearIds(get_todos(table, NoFail).todos)]]
    /\ fresh' = [fresh EXCEPT ![p] = {}]
    /\ UNCHANGED <<table, before, last, used, lastWrite>>

\* the ids of the rows a pending write names
Named(w) ==
    IF w.op \in {"remove", "clear"} THEN {AsU32(i) : i \in w.ids}
    ELSE {w.todos[n].id : n \in 1..Len(w.todos)}

\* remove_todos or update_todos, with what was read
ConcWrite(p) ==
    /\ Reading(p)
    /\ table' = IF pending[p].op \in {"remove", "clear"}
                THEN remove_todos(table, pending[p].ids, NoFail).table
                ELSE update_todos(table, pending[p].todos, NoFail).table
    /\ lastWrite' = [proc |-> p, op |-> pending[p].op,
                     touched |-> Named(pending[p]) \cap Ids(table),
                     fresh |-> fresh[p]]
    /\ pending' = [pending EXCEPT ![p] = Idle]
    /\ fresh' = [q \in Procs |-> IF q = p THEN {} ELSE fresh[q] \cap Ids(table')]
    /\ UNCHANGED <<before, last, used>>

NextConc == \E p \in Procs : ConcAdd(p) \/ ConcRead(p) \/ ConcWrite(p)

SpecConc == Init /\ [][NextConc]_vars

---------------------------------------------------------------------------
(* What the claims are stated with *)

\* the display index of row r among rows: its 0-based place by ascending id
Pos(r, rows) == Cardinality({s \in rows : IdLess(s.id, r.id)})

\* the line an item shows as at display index i
Shown(r, i) ==
    [index |-> i,
     text  |-> IF r.done THEN strikethrough(r.title) ELSE <<r.title>>]

\* stdout is the listing of rows, numbered from 0 in ascending id
Shows(stdout, rows) ==
    /\ Len(stdout) = Cardinality(rows)
    /\ \A r \in rows : stdout[Pos(r, rows) + 1] = Shown(r, Pos(r, rows))

Succeeded(ops) == last.cmd.op \in ops /\ last.exit = 0

InRange(i) == i < Cardinality(before)

\* the step of run_command a fault strikes in
StepOf(at) ==
    CASE at = "open"         -> "connection"
      [] at = "create_table" -> "schema"
      [] at = "print"        -> "print"
      [] OTHER               -> "mutation"

AllSteps == <<"connection", "schema", "mutation", "print">>

---------------------------------------------------------------------------
(* Claims checked under Spec *)

\* C1: after set_done(indexes, d) succeeds, each item whose display index
\* (before the call) is in indexes has done = d, every other item keeps its
\* done flag, and no item is added or removed or changes id or title.
C1_SetDoneFrame ==
    Succeeded({"done", "undone"}) =>
        /\ Cardinality(table) = Cardinality(before)
        /\ table = {[r EXCEPT !.done = IF Pos(r, before) \in last.cmd.ids
                                       THEN last.cmd.op = "done"
                                       ELSE r.done] : r \in before}

\* a done that flipped one item of several and left another alone
C1_Witness ==
    /\ Succeeded({"done"})
    /\ \E r, s \in before :
          /\ ~r.done /\ Pos(r, before) \in last.cmd.ids
          /\ Pos(s, before) \notin last.cmd.ids
    /\ table # before

C3_OutOfRangeNoOp ==
    (/\ last.cmd.op \in {"done", "undone", "remove"}
     /\ last.fail = NoFail
     /\ \A i \in last.cmd.ids : ~InRange(i)) =>
        /\ last.exit = 0
        /\ table = before
        /\ main(table, last.cmd, NoFail).exit = 0
        /\ main(table, last.cmd, NoFail).table = table

\* an undone, of a store holding a done item, given only indexes past the end
C3_Witness ==
    /\ last.cmd.op = "undone"
    /\ last.fail = NoFail
    /\ last.cmd.ids # {}
    /\ \A i \in last.cmd.ids : ~InRange(i)
    /\ \E r \in before : r.done
    /\ last.exit = 0

C5_AddAppends ==
    Succeeded({"add"}) =>
        /\ before \subseteq table
        /\ \A r \in before : Pos(r, table) = Pos(r, before)
        /\ Cardinality(table) = Cardinality(before) + Len(last.cmd.titles)
        /\ \A n \in 1..Len(last.cmd.titles) :
              \E r \in table \ before :
                  /\ Pos(r, table) = Cardinality(before) + n - 1
                  /\ r.title = last.cmd.titles[n]
                  /\ ~r.done

\* an add of two different titles to a store that holds a done item
C5_Witness ==
    /\ Succeeded({"add"})
    /\ Len(last.cmd.titles) = 2
    /\ last.cmd.titles[1] # last.cmd.titles[2]
    /\ \E r \in before : r.done

\* C7: when a statement of an insert or update batch, or its commit, fails,
\* the command returns an error and the store is what it was before the call.
C7_AllOrNothing ==
    (/\ last.cmd.op \in {"add", "done", "undone"}
     /\ last.fail.at \in {"transaction", "prepare", "execute", "commit"}) =>
        /\ last.exit = 1
        /\ table = before

\* an add to a store holding items whose second insert failed, after the
\* first had run
C7_Witness ==
    /\ last.cmd.op = "add"
    /\ last.fail.at = "execute" /\ last.fail.k >= 1
    /\ before # {}
    /\ last.exit = 1

---------------------------------------------------------------------------
(* Claims checked under SpecIds, SpecRemove and SpecConc *)

\* C6: an id once given to an item is never given to an item created later:
\* every inserted item gets an id different from every id used before.
C6_IdNeverReused ==
    Succeeded({"add"}) => (Ids(table) \ Ids(before)) \cap used = {}

\* C9: remove_todos(ids) deletes a row if and only if its id is in ids, for
\* every id the store can hold; an id that matches no row changes nothing.
C9_DeletesExactlyIds ==
    last.cmd.op = "remove_todos" =>
        table = {r \in before : r.id \notin last.cmd.ids}

\* C10: a remove, done or undone whose write lands after other invocations'
\* writes touches only items that were in the listing it read: never an item
\* created after its read.
C10_TouchesOnlyRead ==
    lastWrite.op \in {"remove", "done", "undone"} =>
        lastWrite.touched \cap lastWrite.fresh = {}

===========================================================================
